---- MODULE Spec2Model ----
(***************************************************************************)
(* Horizon: session reconstruction (services/sessions.ts), statistics      *)
(* (services/statistics.ts), the interactions store (schema.sql and        *)
(* routes/interactions.ts).                                               *)
(*                                                                         *)
(* Representation.                                                         *)
(*  - An instant (Date.getTime()) is an integer number of SECONDS since    *)
(*    the model's epoch, a day boundary (00:00:00Z).  The source works in  *)
(*    milliseconds; every constant of the source that is a number of       *)
(*    milliseconds (60000) appears here divided by 1000 (60).              *)
(*  - A timestamp string is [t |-> instant, form |-> "Z" | "ms"]: the same *)
(*    instant written "2026-01-19T10:00:00Z" or, as Date.toISOString()     *)
(*    writes it, "2026-01-19T10:00:00.000Z".                               *)
(*  - A number of minutes that the source holds as a float is held as the  *)
(*    exact rational n/60 by its numerator n (seconds); a value the source *)
(*    rounds to one decimal is held as its number of tenths.  Arithmetic   *)
(*    is exact: binary floating point error is outside the model.          *)
(*  - A calendar date "YYYY-MM-DD" is the number of days since the epoch.  *)
(***************************************************************************)
EXTENDS Integers, Sequences, FiniteSets, TLC

VARIABLES
    interactions,   \* the Interaction[] a function under analysis is called with
    pc,             \* control position of the current specification
    idx,            \* calculateActiveTime: position of the for-of loop
    promptStarts,   \* calculateActiveTime: queue of unpaired prompt-starts
    totalMinutes,   \* calculateActiveTime: accumulated minutes (in 1/60 min)
    activeTime,     \* calculateActiveTime: returned value (tenths of a minute)
    sessions,       \* the Session[] returned by calculateSessions / deriveSession
    store,          \* the rows of table interactions, in rowid order
    request,        \* the HTTP request handled last
    response,       \* the HTTP response to it
    now,            \* the system clock: what new Date() gives
    timezoneOffset, \* statistics: the timezoneOffset argument, in minutes
    weekStart,      \* statistics: the weekStart argument, an instant
    streak,         \* the value returned by calculateStreak
    stats,          \* the WeeklyStats returned by calculateWeeklyStats
    projectStats,   \* the ProjectStats[] returned by calculateProjectStats
    earlier,        \* the clock and the result of the call before the last
    selectedProject,     \* dashboard: state.selectedProject
    projectSessions,     \* dashboard: state.projectSessions
    fetches,             \* dashboard: the session fetches in flight
    issued,              \* dashboard: the number of fetches started so far
    sessionDetailPanel   \* dashboard: what renderSessionDetail last drew

loopVars == <<idx, promptStarts, totalMinutes, activeTime>>
apiVars == <<store, request, response>>
statVars == <<now, timezoneOffset, weekStart, streak, stats, projectStats, earlier>>
dashVars ==
    <<selectedProject, projectSessions, fetches, issued, sessionDetailPanel>>

vars == <<interactions, pc, loopVars, sessions, apiVars, statVars, dashVars>>

(***************************************************************************)
(* Bounds                                                                  *)
(***************************************************************************)
MaxEvents == 4

(***************************************************************************)
(* Time, JavaScript numerics                                               *)
(***************************************************************************)
SecondsPerMinute == 60

Forms == {"Z", "ms"}

\* new Date(timestamp).getTime()
getTime(timestamp) == timestamp.t

\* new Date(instant).toISOString()
toISOString(instant) == [t |-> instant, form |-> "ms"]

\* Math.round(n / d) for d > 0: the nearest integer, a half rounds up
MathRound(n, d) == (2 * n + d) \div (2 * d)

MathMax(a, b) == IF a >= b THEN a ELSE b

EventTypes == {"prompt-start", "response-end", "session-end"}

(***************************************************************************)
(* services/sessions.ts: calculateActiveTime                               *)
(***************************************************************************)
DEFAULT_DURATION_MINUTES == 5

\* promptStarts.shift(): removes and returns the first element
ShiftLast(queue) ==
    [item |-> queue[Len(queue)], rest |-> SubSeq(queue, 1, Len(queue) - 1)]

Shift(queue) == [item |-> Head(queue), rest |-> Tail(queue)]

\* the minutes one pair adds: Math.max(0, (end - start) / 60000)
PairMinutesUnclamped(promptStart, event) ==
    getTime(event.timestamp) - getTime(promptStart.timestamp)

PairMinutes(promptStart, event) ==
    MathMax(0, getTime(event.timestamp) - getTime(promptStart.timestamp))

\* what the unpaired prompt-starts add after the loop
UnpairedMinutesOnce(queue) ==
    (IF Len(queue) > 0 THEN 1 ELSE 0) * DEFAULT_DURATION_MINUTES * SecondsPerMinute

UnpairedMinutes(queue) ==
    Len(queue) * DEFAULT_DURATION_MINUTES * SecondsPerMinute

\* one iteration of the for-of loop on the state [promptStarts, totalMinutes]
ActiveTimeStepOrphanQueued(st, event) ==
    IF event.event_type = "prompt-start"
    THEN [promptStarts |-> Append(st.promptStarts, event),
          totalMinutes |-> st.totalMinutes]
    ELSE IF event.event_type = "response-end"
    THEN IF st.promptStarts # <<>>
         THEN [promptStarts |-> Shift(st.promptStarts).rest,
               totalMinutes |-> st.totalMinutes
                                + PairMinutes(Shift(st.promptStarts).item, event)]
         ELSE [promptStarts |-> <<event>>, totalMinutes |-> st.totalMinutes]
    ELSE st

\* a session-end closes the oldest queued prompt-start as a response-end does
ActiveTimeStepSessionEndPairs(st, event) ==
    IF event.event_type = "prompt-start"
    THEN [promptStarts |-> Append(st.promptStarts, event),
          totalMinutes |-> st.totalMinutes]
    ELSE IF st.promptStarts # <<>>
         THEN [promptStarts |-> Shift(st.promptStarts).rest,
               totalMinutes |-> st.totalMinutes
                                + PairMinutes(Shift(st.promptStarts).item, event)]
         ELSE st

ActiveTimeStep(st, event) ==
    IF event.event_type = "prompt-start"
    THEN [promptStarts |-> Append(st.promptStarts, event),
          totalMinutes |-> st.totalMinutes]
    ELSE IF event.event_type = "response-end"
    THEN IF st.promptStarts # <<>>
         THEN [promptStarts |-> Shift(st.promptStarts).rest,
               totalMinutes |-> st.totalMinutes
                                + PairMinutes(Shift(st.promptStarts).item, event)]
         ELSE st
    ELSE st

RECURSIVE ActiveTimeLoop(_, _, _)
ActiveTimeLoop(st, events, i) ==
    IF i > Len(events) THEN st
    ELSE ActiveTimeLoop(ActiveTimeStep(st, events[i]), events, i + 1)

\* totalMinutes += promptStarts.length * DEFAULT_DURATION_MINUTES
AddUnpaired(st) ==
    [st EXCEPT !.totalMinutes = @ + UnpairedMinutes(st.promptStarts)]

\* Math.round(totalMinutes * 10) / 10, in tenths of a minute
RoundToTenth(minutes) == MathRound(minutes * 10, SecondsPerMinute)

calculateActiveTime(events) ==
    RoundToTenth(
        AddUnpaired(
            ActiveTimeLoop([promptStarts |-> <<>>, totalMinutes |-> 0],
                           events, 1)).totalMinutes)

(***************************************************************************)
(* Array.prototype.sort(compare): stable; compare is a difference of keys  *)
(***************************************************************************)
\* the array whose k-th element is f[k] (a function with domain 1..n, held
\* as a sequence)
Array(f) == SubSeq(f, 1, Len(f))

\* seq.sort((a, b) => key(a) - key(b)), where key[i] is the key of seq[i]:
\* ascending by key, elements of equal key in their order in seq (the sort
\* is stable)
StableSort(seq, key) ==
    LET n == Len(seq)
        rank(i) == 1 + Cardinality({j \in 1..n :
                         \/ key[j] < key[i]
                         \/ (key[j] = key[i] /\ j < i)})
    IN  Array([k \in 1..n |-> seq[CHOOSE i \in 1..n : rank(i) = k]])

(***************************************************************************)
(* services/sessions.ts: deriveSession                                     *)
(***************************************************************************)
\* the null of Session.end
Null == [t |-> -1, form |-> "null"]

\* events.some((e) => e.event_type === "session-end")
hasSessionEnd(events) ==
    \E i \in 1..Len(events) : events[i].event_type = "session-end"

\* the indexes of the prompt-start events
PromptStartIndexes(events) ==
    {i \in 1..Len(events) : events[i].event_type = "prompt-start"}

\* [...events].reverse().find((e) => e.event_type === "prompt-start")
lastPromptStart(events) ==
    events[CHOOSE i \in PromptStartIndexes(events) :
               \A j \in PromptStartIndexes(events) : j <= i]

\* lastPromptStart ? events.some(response-end later than it) : true
hasMatchingResponseEndNotEarlier(events) ==
    IF PromptStartIndexes(events) # {}
    THEN \E i \in 1..Len(events) :
            /\ events[i].event_type = "response-end"
            /\ getTime(events[i].timestamp)
                   >= getTime(lastPromptStart(events).timestamp)
    ELSE TRUE

hasMatchingResponseEnd(events) ==
    IF PromptStartIndexes(events) # {}
    THEN \E i \in 1..Len(events) :
            /\ events[i].event_type = "response-end"
            /\ getTime(events[i].timestamp)
                   > getTime(lastPromptStart(events).timestamp)
    ELSE TRUE

\* active when the pairing leaves a prompt-start waiting in the queue
isActiveSomeUnpaired(events) ==
    /\ ~hasSessionEnd(events)
    /\ ActiveTimeLoop([promptStarts |-> <<>>, totalMinutes |-> 0],
                      events, 1).promptStarts # <<>>

isActive(events) == ~hasSessionEnd(events) /\ ~hasMatchingResponseEnd(events)

\* isActive ? null : new Date(lastEvent.timestamp), then endTime?.toISOString()
SessionEndIgnoringExplicit(events) ==
    IF ~hasMatchingResponseEnd(events) THEN Null
    ELSE toISOString(getTime(events[Len(events)].timestamp))

SessionEnd(events) ==
    IF isActive(events) THEN Null
    ELSE toISOString(getTime(events[Len(events)].timestamp))

\* an active session given no span at all
spanMinutesActiveZero(events) ==
    IF isActive(events) THEN 0
    ELSE MathRound(getTime(events[Len(events)].timestamp)
                       - getTime(events[1].timestamp),
                   SecondsPerMinute)

\* the span measured up to the last prompt-start instead of the last event
spanMinutesToLastPromptStart(events) ==
    IF PromptStartIndexes(events) = {} THEN 0
    ELSE MathRound(getTime(lastPromptStart(events).timestamp)
                       - getTime(events[1].timestamp),
                   SecondsPerMinute)

\* both branches of the conditional measure up to the last event
spanMinutes(events) ==
    MathRound(getTime(events[Len(events)].timestamp)
                  - getTime(events[1].timestamp),
              SecondsPerMinute)

\* defined for events # << >>; on an empty list the source throws
\* project, machine, agent and start taken from the first prompt-start of
\* the list when it has one, not from its first event
deriveSessionFromFirstPrompt(sessionId, events) ==
    LET first == IF PromptStartIndexes(events) = {} THEN 1
                 ELSE CHOOSE i \in PromptStartIndexes(events) :
                          \A j \in PromptStartIndexes(events) : i <= j
    IN  [session_id        |-> sessionId,
         project           |-> events[first].project,
         start             |-> events[first].timestamp,
         end               |-> SessionEnd(events),
         span_minutes      |-> spanMinutes(events),
         active_minutes    |-> calculateActiveTime(events),
         machine           |-> events[first].machine,
         agent             |-> events[first].agent,
         interaction_count |-> Cardinality(PromptStartIndexes(events)),
         explicit_end      |-> hasSessionEnd(events)]

deriveSession(sessionId, events) ==
    [session_id        |-> sessionId,
     project           |-> events[1].project,
     start             |-> events[1].timestamp,
     end               |-> SessionEnd(events),
     span_minutes      |-> spanMinutes(events),
     active_minutes    |-> calculateActiveTime(events),
     machine           |-> events[1].machine,
     agent             |-> events[1].agent,
     interaction_count |-> Cardinality(PromptStartIndexes(events)),
     explicit_end      |-> hasSessionEnd(events)]

(***************************************************************************)
(* services/sessions.ts: calculateSessions                                 *)
(***************************************************************************)
\* the keys of a Map in insertion order, when keys[i] is the key that the
\* i-th iteration of the filling loop sets
RECURSIVE MapKeys(_)
MapKeys(keys) ==
    IF keys = <<>> THEN <<>>
    ELSE LET front == MapKeys(SubSeq(keys, 1, Len(keys) - 1))
             key   == keys[Len(keys)]
         IN  IF \E k \in 1..Len(front) : front[k] = key
             THEN front ELSE Append(front, key)

\* the keys of the Map `grouped`, in insertion order
GroupKeys(list) == MapKeys(Array([i \in 1..Len(list) |-> list[i].session_id]))

\* grouped.get(sessionId): the events of the session in input order
GroupEvents(list, sid) ==
    LET Member(e) == e.session_id = sid IN SelectSeq(list, Member)

\* events.sort((a, b) => getTime(a.timestamp) - getTime(b.timestamp))
EventInstants(events) ==
    Array([i \in 1..Len(events) |-> getTime(events[i].timestamp)])

\* the group left in arrival order
SortEventsArrivalOrder(events) == events

SortEvents(events) == StableSort(events, EventInstants(events))

\* sessions.sort((a, b) => getTime(a.start) - getTime(b.start)): oldest first
EarlierStart(list) ==
    Array([i \in 1..Len(list) |-> getTime(list[i].start)])

\* sessions.sort((a, b) => getTime(b.start) - getTime(a.start))
LaterStart(list) ==
    Array([i \in 1..Len(list) |-> 0 - getTime(list[i].start)])

calculateSessions(list) ==
    IF Len(list) = 0 THEN <<>>
    ELSE LET keys    == GroupKeys(list)
             derived == Array([k \in 1..Len(keys) |->
                            deriveSession(keys[k],
                                SortEvents(GroupEvents(list, keys[k])))])
         IN  StableSort(derived, LaterStart(derived))

(***************************************************************************)
(* services/statistics.ts                                                  *)
(***************************************************************************)
SecondsPerDay == 24 * 60 * 60

MinutesPerHour == 60

\* new Date(instant).toISOString().split("T")[0]
UTCDate(instant) == instant \div SecondsPerDay

LocalDateIgnoringOffset(timestamp, tzOffset) == UTCDate(getTime(timestamp))

\* the date of new Date(getTime(timestamp) + timezoneOffset * 60000)
LocalDate(timestamp, tzOffset) ==
    UTCDate(getTime(timestamp) + tzOffset * SecondsPerMinute)

\* the sum of active_minutes (tenths of a minute) over a Session[]
RECURSIVE SumActiveMinutes(_)
SumActiveMinutes(list) ==
    IF list = <<>> THEN 0
    ELSE list[1].active_minutes + SumActiveMinutes(Tail(list))

\* Math.round((minutes / 60) * 10) / 10, in tenths of an hour, of a number of
\* tenths of a minute
RoundHours(minutes) == MathRound(minutes, MinutesPerHour)

\* .sort((a, b) => b.hours - a.hours)
MoreHours(entries) ==
    Array([i \in 1..Len(entries) |-> 0 - entries[i].hours])

\* the sessions of a list whose field (project, agent or machine) is key
WithKey(list, field, key) ==
    LET Member(s) == s[field] = key IN SelectSeq(list, Member)

\* the keys of a Map filled in the order of the list
KeysOf(list, field) ==
    MapKeys(Array([i \in 1..Len(list) |-> list[i][field]]))

\* sorted by hours descending, entries of equal hours in the reverse of
\* the order in which their projects first appear
calculateProjectBreakdownTiesReversed(list) ==
    LET names == KeysOf(list, "project")
        n == Len(names)
        entries == Array([k \in 1..n |->
            [name     |-> names[n + 1 - k],
             hours    |-> RoundHours(SumActiveMinutes(
                                         WithKey(list, "project", names[n + 1 - k]))),
             sessions |-> Len(WithKey(list, "project", names[n + 1 - k]))]])
    IN  StableSort(entries, MoreHours(entries))

calculateProjectBreakdown(list) ==
    LET names == KeysOf(list, "project")
        entries == Array([k \in 1..Len(names) |->
            [name     |-> names[k],
             hours    |-> RoundHours(SumActiveMinutes(WithKey(list, "project", names[k]))),
             sessions |-> Len(WithKey(list, "project", names[k]))]])
    IN  StableSort(entries, MoreHours(entries))

\* Math.round((hours / totalHours) * 100) without the test of totalHours:
\* a division by 0 gives Infinity or NaN, written -1 here
PercentageUnguarded(minutes, totalHours) ==
    IF totalHours = 0 THEN 0 - 1
    ELSE MathRound(minutes * 100 * 10, MinutesPerHour * 10 * totalHours)

\* totalHours > 0 ? Math.round((hours / totalHours) * 100) : 0, where hours
\* is minutes / 60 unrounded and totalHours is in tenths of an hour
Percentage(minutes, totalHours) ==
    IF totalHours > 0
    THEN MathRound(minutes * 100 * 10, MinutesPerHour * 10 * totalHours)
    ELSE 0

ShareBreakdown(list, field, totalHours) ==
    LET names == KeysOf(list, field)
        entries == Array([k \in 1..Len(names) |->
            [name       |-> names[k],
             hours      |-> RoundHours(SumActiveMinutes(WithKey(list, field, names[k]))),
             percentage |-> Percentage(SumActiveMinutes(WithKey(list, field, names[k])),
                                       totalHours)]])
    IN  StableSort(entries, MoreHours(entries))

calculateAgentBreakdown(list, totalHours) ==
    ShareBreakdown(list, "agent", totalHours)

calculateMachineBreakdown(list, totalHours) ==
    ShareBreakdown(list, "machine", totalHours)

\* the names the model uses, in the order of Array.prototype.sort() without
\* a compare function (by UTF-16 code units)
SortedNames == <<"a1", "a2", "m1", "m2", "p1", "p2", "p3">>

NameRank(name) == CHOOSE k \in 1..Len(SortedNames) : SortedNames[k] = name

NameOrder(names) ==
    Array([i \in 1..Len(names) |-> NameRank(names[i])])

\* every agent listed with every project of the list
calculateAgentProjectBreakdownCartesian(list) ==
    LET agents == KeysOf(list, "agent")
        all    == KeysOf(list, "project")
        entries == Array([k \in 1..Len(agents) |->
            [agent    |-> agents[k],
             projects |-> StableSort(all, NameOrder(all)),
             hours    |-> RoundHours(SumActiveMinutes(
                                         WithKey(list, "agent", agents[k])))]])
    IN  StableSort(entries, MoreHours(entries))

calculateAgentProjectBreakdown(list) ==
    LET agents == KeysOf(list, "agent")
        entries == Array([k \in 1..Len(agents) |->
            [agent    |-> agents[k],
             projects |-> LET used == KeysOf(WithKey(list, "agent", agents[k]),
                                             "project")
                          IN  StableSort(used, NameOrder(used)),
             hours    |-> RoundHours(SumActiveMinutes(
                                         WithKey(list, "agent", agents[k])))]])
    IN  StableSort(entries, MoreHours(entries))

DaysOfWeek == 7

\* only the days of the week on which a session starts
calculateDailyBreakdownActiveDays(list, start, tzOffset) ==
    LET Active(k) == \E i \in 1..Len(list) :
                         LocalDate(list[i].start, tzOffset) = UTCDate(start) + (k - 1)
        days == SelectSeq(Array([k \in 1..DaysOfWeek |-> k]), Active)
    IN  Array([n \in 1..Len(days) |->
            LET dateStr == UTCDate(start) + (days[n] - 1)
                OnDay(s) == LocalDate(s.start, tzOffset) = dateStr
                daySessions == SelectSeq(list, OnDay)
            IN  [date     |-> dateStr,
                 hours    |-> RoundHours(SumActiveMinutes(daySessions)),
                 sessions |-> Len(daySessions),
                 projects |-> calculateProjectBreakdown(daySessions)]])

calculateDailyBreakdown(list, start, tzOffset) ==
    Array([k \in 1..DaysOfWeek |->
        LET dateStr == UTCDate(start) + (k - 1)
            OnDay(s) == LocalDate(s.start, tzOffset) = dateStr
            daySessions == SelectSeq(list, OnDay)
        IN  [date     |-> dateStr,
             hours    |-> RoundHours(SumActiveMinutes(daySessions)),
             sessions |-> Len(daySessions),
             projects |-> calculateProjectBreakdown(daySessions)]])

STREAK_LOOKBACK == 365

\* localToday: new Date(today.getTime() + timezoneOffset * 60000) at 00:00
TodayUTC(clock, tzOffset) == UTCDate(clock)

LocalToday(clock, tzOffset) == UTCDate(clock + tzOffset * SecondsPerMinute)

\* the for loop of calculateStreak: i runs from 0 up to the first i > 0 whose
\* day has no activity (break), and no further than STREAK_LOOKBACK - 1;
\* streak counts the iterations whose day has activity
StreakLoopNoExemption(dates, localToday) ==
    LET missing == {i \in 0..(STREAK_LOOKBACK - 1) : (localToday - i) \notin dates}
        stop    == IF missing = {} THEN STREAK_LOOKBACK
                   ELSE CHOOSE i \in missing : \A j \in missing : i <= j
    IN  Cardinality({i \in 0..(stop - 1) : (localToday - i) \in dates})

StreakLoop(dates, localToday) ==
    LET missing == {i \in 1..(STREAK_LOOKBACK - 1) : (localToday - i) \notin dates}
        stop    == IF missing = {} THEN STREAK_LOOKBACK
                   ELSE CHOOSE i \in missing : \A j \in missing : i <= j
    IN  Cardinality({i \in 0..(stop - 1) : (localToday - i) \in dates})

\* calculateStreak reads the clock: new Date()
calculateStreak(list, tzOffset, clock) ==
    IF Len(list) = 0 THEN 0
    ELSE LET datesWithActivity ==
                 {LocalDate(list[i].timestamp, tzOffset) : i \in 1..Len(list)}
         IN  StreakLoop(datesWithActivity, LocalToday(clock, tzOffset))

RECURSIVE TotalHoursOfRounded(_)
\* the sum of the hours of each session, each rounded to one decimal
TotalHoursOfRounded(list) ==
    IF list = <<>> THEN 0
    ELSE RoundHours(list[1].active_minutes) + TotalHoursOfRounded(Tail(list))

\* totalMinutes = sessions.reduce(...); Math.round((totalMinutes / 60) * 10) / 10
TotalHours(list) == RoundHours(SumActiveMinutes(list))

calculateWeeklyStats(list, start, tzOffset, clock) ==
    LET derived    == calculateSessions(list)
        totalHours == TotalHours(derived)
    IN  [total_hours     |-> totalHours,
         total_sessions  |-> Len(derived),
         streak_days     |-> calculateStreak(list, tzOffset, clock),
         daily_breakdown |-> calculateDailyBreakdown(derived, start, tzOffset),
         projects        |-> calculateProjectBreakdown(derived),
         agents          |-> calculateAgentBreakdown(derived, totalHours),
         machines        |-> calculateMachineBreakdown(derived, totalHours),
         agent_projects  |-> calculateAgentProjectBreakdown(derived),
         comparison      |-> [vs_last_week |-> 0]]

\* sort((a, b) => b.total_hours - a.total_hours)
MoreTotalHours(entries) ==
    Array([i \in 1..Len(entries) |-> 0 - entries[i].total_hours])

\* the agents Record of a project: agent name -> hours, rounded
AgentHours(list) ==
    [agent \in {list[i].agent : i \in 1..Len(list)} |->
        RoundHours(SumActiveMinutes(WithKey(list, "agent", agent)))]

\* every agent of a project with the hours of the agent over all projects
calculateProjectStatsAgentTotals(list) ==
    IF Len(list) = 0 THEN <<>>
    ELSE LET derived == calculateSessions(list)
             names   == KeysOf(derived, "project")
             entries == Array([k \in 1..Len(names) |->
                 LET own == WithKey(derived, "project", names[k])
                 IN  [name           |-> names[k],
                      total_hours    |-> RoundHours(SumActiveMinutes(own)),
                      total_sessions |-> Len(own),
                      agents         |->
                          [agent \in DOMAIN AgentHours(own) |->
                              AgentHours(derived)[agent]]]])
         IN  StableSort(entries, MoreTotalHours(entries))

calculateProjectStats(list) ==
    IF Len(list) = 0 THEN <<>>
    ELSE LET derived == calculateSessions(list)
             names   == KeysOf(derived, "project")
             entries == Array([k \in 1..Len(names) |->
                 LET own == WithKey(derived, "project", names[k])
                 IN  [name           |-> names[k],
                      total_hours    |-> RoundHours(SumActiveMinutes(own)),
                      total_sessions |-> Len(own),
                      agents         |-> AgentHours(own)]])
         IN  StableSort(entries, MoreTotalHours(entries))

(***************************************************************************)
(* middleware/auth.ts, routes/interactions.ts, schema.sql                  *)
(***************************************************************************)
\* c.env.API_KEY
API_KEY == "secret"

\* no request handled yet; no response given (the middleware called next())
NoRequest == [kind |-> "none"]
NoResponse == [status |-> 0, body |-> "none"]

\* a timestamp field that is absent, and one that Date.parse cannot read
MissingTimestamp == [t |-> -1, form |-> "missing"]
InvalidTimestamp == [t |-> -1, form |-> "invalid"]

VALID_EVENT_TYPES == <<"prompt-start", "response-end", "session-end">>

Json(status, body) == [status |-> status, body |-> body]

\* value === undefined || value === null || value === ""
IsMissing(body, field) ==
    IF field = "timestamp" THEN body.timestamp = MissingTimestamp
    ELSE body[field] = ""

requiredFields ==
    <<"project", "timestamp", "machine", "agent", "session_id", "event_type">>

\* `Missing required field: ${field}`
MissingFieldError ==
    <<"Missing required field: project", "Missing required field: timestamp",
      "Missing required field: machine", "Missing required field: agent",
      "Missing required field: session_id", "Missing required field: event_type">>

\* the first required field the body lacks, 0 when it has them all
FirstMissing(body) ==
    IF \E k \in 1..Len(requiredFields) : IsMissing(body, requiredFields[k])
    THEN CHOOSE k \in 1..Len(requiredFields) :
             /\ IsMissing(body, requiredFields[k])
             /\ \A j \in 1..(k - 1) : ~IsMissing(body, requiredFields[j])
    ELSE 0

\* isNaN(Date.parse(timestamp))
DateParseIsNaN(timestamp) == timestamp.form \notin Forms

\* idx_interactions_unique ON interactions(session_id, timestamp, event_type):
\* the timestamp column is TEXT and is compared as written
UniqueKey(row) == <<row.session_id, row.timestamp, row.event_type>>

Conflicts(rows, body) ==
    \E i \in 1..Len(rows) : UniqueKey(rows[i]) = UniqueKey(body)

NewRow(rows, body) ==
    [id |-> Len(rows) + 1, project |-> body.project, timestamp |-> body.timestamp,
     machine |-> body.machine, agent |-> body.agent,
     session_id |-> body.session_id, event_type |-> body.event_type]

\* INSERT INTO interactions ... ON CONFLICT (...) DO NOTHING
InsertOrReplace(rows, body) ==
    IF Conflicts(rows, body)
    THEN Array([i \in 1..Len(rows) |->
             IF UniqueKey(rows[i]) = UniqueKey(body)
             THEN [NewRow(rows, body) EXCEPT !.id = rows[i].id]
             ELSE rows[i]])
    ELSE Append(rows, NewRow(rows, body))

InsertOnConflictDoNothing(rows, body) ==
    IF Conflicts(rows, body) THEN rows ELSE Append(rows, NewRow(rows, body))

\* the key compared without regard to case
apiKeyAuthIgnoringCase(req) ==
    IF req.apiKey = "" THEN Json(401, "Unauthorized")
    ELSE IF req.apiKey \notin {API_KEY, "Secret"} THEN Json(403, "Forbidden")
    ELSE NoResponse

\* apiKeyAuth: the response it gives, NoResponse when it calls next()
apiKeyAuth(req) ==
    IF req.apiKey = "" THEN Json(401, "Unauthorized")
    ELSE IF req.apiKey # API_KEY THEN Json(403, "Forbidden")
    ELSE NoResponse

\* app.post("/interactions"): the response and the rows after it
postInteractions(req, rows) ==
    IF ~req.json
    THEN [response |-> Json(400, "Invalid JSON body"), rows |-> rows]
    ELSE IF FirstMissing(req.body) # 0
    THEN [response |-> Json(400, MissingFieldError[FirstMissing(req.body)]),
          rows |-> rows]
    ELSE IF ~\E k \in 1..Len(VALID_EVENT_TYPES) :
                 VALID_EVENT_TYPES[k] = req.body.event_type
    THEN [response |-> Json(400, "Invalid event_type"), rows |-> rows]
    ELSE IF DateParseIsNaN(req.body.timestamp)
    THEN [response |-> Json(400, "Invalid timestamp format"), rows |-> rows]
    ELSE [response |-> Json(201, "recorded"),
          rows |-> InsertOnConflictDoNothing(rows, req.body)]

(***************************************************************************)
(* index.ts: the root route and the CORS middleware, which are reached     *)
(* before apiKeyAuth                                                       *)
(***************************************************************************)
\* app.get("/", (c) => c.text("Horizon API"))
rootRoute == [status |-> 200, body |-> "Horizon API"]

\* cors(...) answers an OPTIONS request itself and does not call next()
corsPreflight == [status |-> 204, body |-> ""]

(***************************************************************************)
(* routes/stats.ts                                                         *)
(***************************************************************************)
\* the place of a timestamp among the TEXT values of the column: the
\* characters up to the seconds order as the instants do; after them
\* ".000Z" sorts before "Z"
TextRank(timestamp) ==
    2 * timestamp.t + (IF timestamp.form = "Z" THEN 1 ELSE 0)

\* ORDER BY timestamp ASC
OrderByTimestamp(rows) ==
    StableSort(rows, Array([i \in 1..Len(rows) |-> TextRank(rows[i].timestamp)]))

\* WHERE timestamp < ? ORDER BY timestamp ASC: no lower bound
SelectBefore(rows, from, to) ==
    LET Kept(row) == TextRank(row.timestamp) < TextRank(to)
    IN  OrderByTimestamp(SelectSeq(rows, Kept))

\* WHERE timestamp >= ? AND timestamp < ? ORDER BY timestamp ASC
SelectBetween(rows, from, to) ==
    LET Kept(row) == /\ TextRank(row.timestamp) >= TextRank(from)
                     /\ TextRank(row.timestamp) < TextRank(to)
    IN  OrderByTimestamp(SelectSeq(rows, Kept))

\* WHERE timestamp >= ? ORDER BY timestamp ASC
SelectSince(rows, from) ==
    LET Kept(row) == TextRank(row.timestamp) >= TextRank(from)
    IN  OrderByTimestamp(SelectSeq(rows, Kept))

\* WHERE project = ? AND timestamp >= ? ORDER BY timestamp ASC
SelectProjectSince(rows, name, from) ==
    LET Kept(row) == /\ row.project = name
                     /\ TextRank(row.timestamp) >= TextRank(from)
    IN  OrderByTimestamp(SelectSeq(rows, Kept))

\* the week_start parameter when the query has none
NoWeekStart == 0 - 1

\* getMonday: 00:00 UTC of the Monday of the week of a date (day 0 of the
\* model is a Monday)
getMonday(instant) ==
    (UTCDate(instant) - (UTCDate(instant) % DaysOfWeek)) * SecondsPerDay

\* weekStart: new Date(weekStartParam + "T00:00:00Z"), or the Monday of
\* the local now
WeekStartOf(req, clock) ==
    IF req.week_start # NoWeekStart THEN req.week_start * SecondsPerDay
    ELSE getMonday(clock + req.tz_offset * SecondsPerMinute)

\* the query made from weekStart as it is
QueryStartIgnoringOffset(req, clock) == WeekStartOf(req, clock)

\* queryStart = weekStart - timezoneOffset * 60000
QueryStart(req, clock) ==
    WeekStartOf(req, clock) - req.tz_offset * SecondsPerMinute

\* queryEnd.setUTCDate(queryEnd.getUTCDate() + 7)
QueryEnd(req, clock) == QueryStart(req, clock) + DaysOfWeek * SecondsPerDay

\* app.get("/stats/weekly")
getWeeklyStats(req, rows, clock) ==
    Json(200, calculateWeeklyStats(
                  SelectBetween(rows, toISOString(QueryStart(req, clock)),
                                      toISOString(QueryEnd(req, clock))),
                  WeekStartOf(req, clock), req.tz_offset, clock))

\* startDate: 00:00 UTC of today, set back by days
StartDate(req, clock) == (UTCDate(clock) - req.days) * SecondsPerDay

\* app.get("/stats/projects")
getProjectStats(req, rows, clock) ==
    Json(200, [projects |->
        calculateProjectStats(
            SelectSince(rows, toISOString(StartDate(req, clock))))])

\* app.get("/projects/:name/sessions")
getProjectSessions(req, rows, clock) ==
    LET found == SelectProjectSince(rows, req.name,
                                    toISOString(StartDate(req, clock)))
    IN  IF Len(found) = 0
        THEN IF \A i \in 1..Len(rows) : rows[i].project # req.name
             THEN Json(404, "Project not found")
             ELSE Json(200, [project |-> req.name, sessions |-> <<>>])
        ELSE Json(200, [project |-> req.name,
                        sessions |-> calculateSessions(found)])

(***************************************************************************)
(* Inputs                                                                  *)
(***************************************************************************)
Interaction(sid, ty, ts, proj, mach, ag) ==
    [session_id |-> sid, event_type |-> ty, timestamp |-> ts,
     project |-> proj, machine |-> mach, agent |-> ag]

SeqsUpTo(S, n) == UNION {[1..k -> S] : k \in 0..n}

\* the parts of the state a specification does not use stay as they start
\* app.js: const state = {selectedProject: null, projectSessions: []}
NoProject == "null"

\* renderSessionDetail: the panel it leaves, given the panel before
renderSessionDetail(panel, selected, list) ==
    IF selected = NoProject THEN [panel EXCEPT !.hidden = TRUE]
    ELSE [hidden |-> FALSE, title |-> selected, list |-> list]

\* the dashboard after its first render(), nothing selected
DashIdle ==
    /\ selectedProject = NoProject
    /\ projectSessions = <<>>
    /\ fetches = {}
    /\ issued = 0
    /\ sessionDetailPanel = [hidden |-> TRUE, title |-> "", list |-> <<>>]

LoopIdle == idx = 1 /\ promptStarts = <<>> /\ totalMinutes = 0 /\ activeTime = -1

ApiIdle == store = <<>> /\ request = NoRequest /\ response = NoResponse

NoStats == [total_sessions |-> -1]
NoCall == [now |-> -1, stats |-> NoStats]

StatIdle ==
    /\ now = 0
    /\ timezoneOffset = 0
    /\ weekStart = 0
    /\ streak = -1
    /\ stats = NoStats
    /\ projectStats = <<>>
    /\ earlier = NoCall

\* minutes 0, 5, 10 and 20 and one instant 3 s after minute 20
ActiveInstants == {0, 300, 600, 1200, 1203}

ActiveInputs ==
    {Interaction("s1", ty, [t |-> x, form |-> "Z"], "p1", "m1", "a1") :
        ty \in {"prompt-start", "response-end"}, x \in ActiveInstants}
    \cup {Interaction("s1", "session-end", [t |-> 600, form |-> "Z"], "p1", "m1", "a1")}

(***************************************************************************)
(* SpecActive: calculateActiveTime, one loop iteration per step, called    *)
(* with any event list (calculateActiveTime is exported and does not sort) *)
(***************************************************************************)
InitActive ==
    /\ interactions \in SeqsUpTo(ActiveInputs, MaxEvents)
    /\ pc = "loop"
    /\ idx = 1
    /\ promptStarts = <<>>
    /\ totalMinutes = 0
    /\ activeTime = -1
    /\ sessions = <<>>
    /\ ApiIdle
    /\ StatIdle
    /\ DashIdle

LoopState == [promptStarts |-> promptStarts, totalMinutes |-> totalMinutes]

Iterate ==
    /\ idx' = idx + 1
    /\ promptStarts' = ActiveTimeStep(LoopState, interactions[idx]).promptStarts
    /\ totalMinutes' = ActiveTimeStep(LoopState, interactions[idx]).totalMinutes
    /\ UNCHANGED <<dashVars, interactions, pc, activeTime, sessions, apiVars, statVars>>

InLoop == pc = "loop" /\ idx <= Len(interactions)

PushPromptStart ==
    /\ InLoop
    /\ interactions[idx].event_type = "prompt-start"
    /\ Iterate

PairResponseEnd ==
    /\ InLoop
    /\ interactions[idx].event_type = "response-end"
    /\ promptStarts # <<>>
    /\ Iterate

DropResponseEnd ==
    /\ InLoop
    /\ interactions[idx].event_type = "response-end"
    /\ promptStarts = <<>>
    /\ Iterate

SkipSessionEnd ==
    /\ InLoop
    /\ interactions[idx].event_type = "session-end"
    /\ Iterate

ReturnActiveTime ==
    /\ pc = "loop"
    /\ idx > Len(interactions)
    /\ totalMinutes' = AddUnpaired(LoopState).totalMinutes
    /\ activeTime' = RoundToTenth(totalMinutes')
    /\ pc' = "returned"
    /\ UNCHANGED <<dashVars, interactions, idx, promptStarts, sessions, apiVars, statVars>>

NextActive ==
    \/ PushPromptStart
    \/ PairResponseEnd
    \/ DropResponseEnd
    \/ SkipSessionEnd
    \/ ReturnActiveTime

SpecActive == InitActive /\ [][NextActive]_vars

(***************************************************************************)
(* SpecSessions: calculateSessions and deriveSession applied to event      *)
(* lists; the caller may pass the same events again in another order       *)
(***************************************************************************)
MaxSessionEvents == 3

SessionInstants == {0, 300, 603}

\* the two sets of metadata an event carries, with the form of its timestamp
MetaA(sid, ty, x) == Interaction(sid, ty, [t |-> x, form |-> "Z"], "p1", "m1", "a1")
MetaB(sid, ty, x) == Interaction(sid, ty, [t |-> x, form |-> "ms"], "p2", "m2", "a2")

SessionInputs ==
    {MetaA("s1", ty, x) : ty \in EventTypes, x \in SessionInstants}
    \cup {MetaB("s1", "prompt-start", 0), MetaB("s1", "response-end", 300),
          MetaB("s1", "session-end", 603)}
    \cup {MetaA("s2", "prompt-start", 0), MetaA("s2", "prompt-start", 300),
          MetaA("s2", "response-end", 603)}

\* sessions of two prompts, each answered before the next is sent
AlternatingInstants ==
    {<<0, 300, 300, 600>>, <<0, 300, 600, 1200>>, <<0, 0, 300, 603>>}

AlternatingSessions ==
    {<<MetaA("s1", "prompt-start", x[1]), MetaA("s1", "response-end", x[2]),
       MetaA("s1", "prompt-start", x[3]), MetaA("s1", "response-end", x[4])>> :
        x \in AlternatingInstants}

InitSessions ==
    /\ interactions \in SeqsUpTo(SessionInputs, MaxSessionEvents)
                           \cup AlternatingSessions
    /\ pc = "input"
    /\ LoopIdle
    /\ DashIdle
    /\ sessions = <<>>
    /\ ApiIdle
    /\ StatIdle

CallCalculateSessions ==
    /\ pc = "input"
    /\ sessions' = calculateSessions(interactions)
    /\ pc' = "sessions"
    /\ UNCHANGED <<dashVars, interactions, loopVars, apiVars, statVars>>

\* deriveSession is exported: called on one list, taken as it is
CallDeriveSession ==
    /\ pc = "input"
    /\ Len(interactions) # 0
    /\ sessions' = <<deriveSession(interactions[1].session_id, interactions)>>
    /\ pc' = "derived"
    /\ UNCHANGED <<dashVars, interactions, loopVars, apiVars, statVars>>

DeriveSessionThrows ==
    /\ pc = "input"
    /\ Len(interactions) = 0
    /\ pc' = "threw"
    /\ UNCHANGED <<dashVars, interactions, loopVars, sessions, apiVars, statVars>>

Swapped(list, i) ==
    Array([k \in 1..Len(list) |->
        IF k = i THEN list[i + 1] ELSE IF k = i + 1 THEN list[i] ELSE list[k]])

\* the same events arrive in another order and the sessions are recomputed
CallWithPermutation ==
    /\ pc = "sessions"
    /\ \E i \in 1..(Len(interactions) - 1) :
           interactions' = Swapped(interactions, i)
    /\ sessions' = calculateSessions(interactions')
    /\ UNCHANGED <<dashVars, pc, loopVars, apiVars, statVars>>

NextSessions ==
    \/ CallCalculateSessions
    \/ CallDeriveSession
    \/ DeriveSessionThrows
    \/ CallWithPermutation

SpecSessions == InitSessions /\ [][NextSessions]_vars

(***************************************************************************)
(* Vocabulary of the properties: the FIFO pairing of an event list, stated *)
(* on the list alone                                                       *)
(***************************************************************************)
IsPrompt(e) == e.event_type = "prompt-start"
IsResponse(e) == e.event_type = "response-end"
IsSessionEnd(e) == e.event_type = "session-end"

\* the number of prompt-starts among the first i events
NumPrompts(events, i) == Cardinality({j \in 1..i : IsPrompt(events[j])})

\* the n-th prompt-start of the list
NthPrompt(events, n) ==
    events[CHOOSE j \in 1..Len(events) :
               IsPrompt(events[j]) /\ NumPrompts(events, j) = n]

\* the number of response-ends among the first i events that found a
\* prompt-start waiting
RECURSIVE NumPaired(_, _)
NumPaired(events, i) ==
    IF i = 0 THEN 0
    ELSE LET k == NumPaired(events, i - 1)
         IN  IF IsResponse(events[i]) /\ NumPrompts(events, i - 1) > k
             THEN k + 1 ELSE k

\* event i is a response-end that finds no prompt-start waiting
IsOrphan(events, i) ==
    /\ IsResponse(events[i])
    /\ NumPrompts(events, i - 1) = NumPaired(events, i - 1)

\* the minutes (in 1/60) of the pairs made among the first i events, the
\* j-th paired response-end taken with the j-th prompt-start
RECURSIVE FifoMinutes(_, _)
FifoMinutes(events, i) ==
    IF i = 0 THEN 0
    ELSE LET k == NumPaired(events, i - 1)
         IN  IF IsResponse(events[i]) /\ NumPrompts(events, i - 1) > k
             THEN FifoMinutes(events, i - 1)
                  + MathMax(0, events[i].timestamp.t
                               - NthPrompt(events, k + 1).timestamp.t)
             ELSE FifoMinutes(events, i - 1)

\* prompts at minute 0 and 5, responses at minute 10 and 20
FifoExample ==
    <<Interaction("s1", "prompt-start", [t |-> 0, form |-> "Z"], "p1", "m1", "a1"),
      Interaction("s1", "prompt-start", [t |-> 300, form |-> "Z"], "p1", "m1", "a1"),
      Interaction("s1", "response-end", [t |-> 600, form |-> "Z"], "p1", "m1", "a1"),
      Interaction("s1", "response-end", [t |-> 1200, form |-> "Z"], "p1", "m1", "a1")>>

(***************************************************************************)
(* C1: while calculateActiveTime runs, the minutes accumulated so far are  *)
(* those of pairing the j-th paired response-end with the j-th             *)
(* prompt-start, and the queue holds the prompt-starts seen so far less    *)
(* the first k of them (k pairs made), oldest first; prompts at minute 0   *)
(* and 5 with responses at minute 10 and 20 return 25.0 minutes.           *)
(***************************************************************************)
C1_FifoPairing ==
    /\ pc = "loop" =>
          LET seen == idx - 1
              k    == NumPaired(interactions, seen)
          IN  /\ totalMinutes = FifoMinutes(interactions, seen)
              /\ Len(promptStarts) = NumPrompts(interactions, seen) - k
              /\ \A n \in 1..Len(promptStarts) :
                     promptStarts[n] = NthPrompt(interactions, k + n)
    /\ (pc = "returned" /\ interactions = FifoExample) => activeTime = 250

C1_Witness ==
    pc = "returned" /\ interactions = FifoExample /\ activeTime = 250

(***************************************************************************)
(* C5: a response-end processed while the queue is empty changes neither   *)
(* the total nor the queue and the loop goes on (nothing is raised); the   *)
(* value returned is the value returned for the list without its orphaned  *)
(* response-ends, so an orphan takes no later prompt-start's pairing.      *)
(***************************************************************************)
WithoutOrphans(events) ==
    LET keep == {i \in 1..Len(events) : ~IsOrphan(events, i)}
        nth(n) == CHOOSE i \in keep : Cardinality({j \in keep : j <= i}) = n
    IN  Array([n \in 1..Cardinality(keep) |-> events[nth(n)]])

C5_OrphanDropped ==
    /\ [][(/\ pc = "loop"
           /\ idx <= Len(interactions)
           /\ IsResponse(interactions[idx])
           /\ promptStarts = <<>>)
          => (/\ totalMinutes' = totalMinutes
              /\ promptStarts' = <<>>
              /\ pc' = "loop"
              /\ idx' = idx + 1)]_vars
    /\ [](pc = "returned" =>
             activeTime = calculateActiveTime(WithoutOrphans(interactions)))

\* an orphan came before a prompt-start that was then paired
C5_Witness ==
    /\ pc = "returned"
    /\ Len(interactions) >= 3
    /\ IsOrphan(interactions, 1)
    /\ IsPrompt(interactions[2])
    /\ IsResponse(interactions[3])
    /\ activeTime = RoundToTenth(MathMax(0, interactions[3].timestamp.t
                                            - interactions[2].timestamp.t))

(***************************************************************************)
(* C6: the total is never negative, whatever the order of the events: a    *)
(* pair adds max(0, response - prompt), exactly 0 when the response-end is *)
(* timestamped before the prompt-start it is paired with, and the value    *)
(* returned is >= 0.                                                       *)
(***************************************************************************)
C6_NeverNegative ==
    /\ [](totalMinutes >= 0 /\ (pc = "returned" => activeTime >= 0))
    /\ [][(/\ pc = "loop"
           /\ idx <= Len(interactions)
           /\ IsResponse(interactions[idx])
           /\ promptStarts # <<>>)
          => LET d == interactions[idx].timestamp.t - Head(promptStarts).timestamp.t
             IN  totalMinutes' = totalMinutes + (IF d < 0 THEN 0 ELSE d)]_vars

\* a response-end timestamped before its prompt-start was paired with it
C6_Witness ==
    /\ pc = "returned"
    /\ Len(interactions) = 2
    /\ IsPrompt(interactions[1])
    /\ IsResponse(interactions[2])
    /\ interactions[2].timestamp.t < interactions[1].timestamp.t
    /\ activeTime = 0

(***************************************************************************)
(* The group of a derived session, stated on the input                     *)
(***************************************************************************)
\* the events a session was derived from, in the order they were processed
GroupOf(s) ==
    IF pc = "derived" THEN interactions
    ELSE SortEvents(GroupEvents(interactions, s.session_id))

Derived == pc \in {"sessions", "derived"}

SessionsOut == {sessions[i] : i \in 1..Len(sessions)}

HasPrompt(g) == \E i \in 1..Len(g) : IsPrompt(g[i])

\* the timestamp of the last prompt-start of a group
LastPromptInstant(g) ==
    LET last == CHOOSE i \in 1..Len(g) :
                    IsPrompt(g[i]) /\ \A j \in (i + 1)..Len(g) : ~IsPrompt(g[j])
    IN  g[last].timestamp.t

ResponseAfterLastPrompt(g) ==
    \E i \in 1..Len(g) :
        IsResponse(g[i]) /\ g[i].timestamp.t > LastPromptInstant(g)

GroupHasSessionEnd(g) == \E i \in 1..Len(g) : IsSessionEnd(g[i])

(***************************************************************************)
(* C2 (as claimed): passing the same events in another order leaves the    *)
(* Session list returned by calculateSessions unchanged.                   *)
(***************************************************************************)
C2_OrderIndependent ==
    [][(pc = "sessions" /\ pc' = "sessions") => sessions' = sessions]_vars

(***************************************************************************)
(* C3: a derived session that has a prompt-start has end = null exactly    *)
(* when its group has no session-end and no response-end timestamped later *)
(* than its last prompt-start; otherwise end is the instant of the group's *)
(* last event.                                                             *)
(***************************************************************************)
C3_EndNullIffActive ==
    Derived =>
        \A s \in SessionsOut :
            LET g == GroupOf(s)
            IN  HasPrompt(g) =>
                    /\ (s.end = Null) <=>
                           (~GroupHasSessionEnd(g) /\ ~ResponseAfterLastPrompt(g))
                    /\ (s.end # Null) =>
                           getTime(s.end) = g[Len(g)].timestamp.t

\* a response-end at the very instant of the last prompt-start: still active
C3_Witness ==
    /\ pc = "sessions"
    /\ \E s \in SessionsOut :
           LET g == GroupOf(s)
           IN  /\ s.end = Null
               /\ \E i, j \in 1..Len(g) :
                      /\ IsPrompt(g[i]) /\ IsResponse(g[j])
                      /\ g[i].timestamp.t = g[j].timestamp.t

(***************************************************************************)
(* C4: active_minutes of a derived session is the minutes of its pairs     *)
(* plus 5 minutes for each of the p - k prompt-starts left unpaired,       *)
(* rounded to one decimal; a session of one lone prompt-start has          *)
(* active_minutes 5 and end null.                                          *)
(***************************************************************************)
C4_UnpairedDefault ==
    Derived =>
        \A s \in SessionsOut :
            LET g == GroupOf(s)
                p == NumPrompts(g, Len(g))
                k == NumPaired(g, Len(g))
            IN  /\ s.active_minutes =
                       MathRound((FifoMinutes(g, Len(g)) + 5 * 60 * (p - k)) * 10, 60)
                /\ (Len(g) = 1 /\ IsPrompt(g[1])) =>
                       (s.active_minutes = 50 /\ s.end = Null)

\* one prompt-start paired over 5 minutes and one left unpaired
C4_Witness ==
    /\ Derived
    /\ \E s \in SessionsOut :
           LET g == GroupOf(s)
           IN  /\ NumPrompts(g, Len(g)) = 2
               /\ NumPaired(g, Len(g)) = 1
               /\ s.active_minutes = 100

(***************************************************************************)
(* C7: explicit_end is true exactly when the group has a session-end, and  *)
(* then end is the instant of the group's last event, not null, also when  *)
(* no response-end follows the last prompt-start.                          *)
(***************************************************************************)
C7_ExplicitEnd ==
    Derived =>
        \A s \in SessionsOut :
            LET g == GroupOf(s)
            IN  /\ s.explicit_end <=> GroupHasSessionEnd(g)
                /\ s.explicit_end =>
                       (s.end # Null /\ getTime(s.end) = g[Len(g)].timestamp.t)

\* a session-end in a group whose last prompt-start has no response-end
C7_Witness ==
    /\ pc = "sessions"
    /\ \E s \in SessionsOut :
           LET g == GroupOf(s)
           IN  /\ s.explicit_end
               /\ HasPrompt(g)
               /\ ~ResponseAfterLastPrompt(g)
               /\ s.end # Null

(***************************************************************************)
(* Spec: the Worker.  Requests to /api/interactions pass apiKeyAuth and    *)
(* reach the handler; the store grows by the rows the handler inserts      *)
(***************************************************************************)
MaxRows == 3

Body(proj, ts, mach, ag, sid, ty) ==
    [project |-> proj, timestamp |-> ts, machine |-> mach, agent |-> ag,
     session_id |-> sid, event_type |-> ty]

StoreTimestamps ==
    {[t |-> 0, form |-> "Z"], [t |-> 0, form |-> "ms"], [t |-> 300, form |-> "Z"]}

ValidBodies ==
    {Body("p1", ts, "m1", "a1", "s1", ty) :
        ts \in StoreTimestamps, ty \in {"prompt-start", "response-end"}}
    \cup {Body("p2", [t |-> 0, form |-> "Z"], "m2", "a2", "s1", "prompt-start"),
          Body("p2", [t |-> 300, form |-> "Z"], "m2", "a2", "s1", "response-end")}

GoodBody == Body("p1", [t |-> 0, form |-> "Z"], "m1", "a1", "s1", "prompt-start")

InvalidBodies ==
    {[GoodBody EXCEPT ![f] = ""] :
        f \in {"project", "machine", "agent", "session_id", "event_type"}}
    \cup {[GoodBody EXCEPT !.timestamp = MissingTimestamp],
          [GoodBody EXCEPT !.timestamp = InvalidTimestamp],
          [GoodBody EXCEPT !.event_type = "prompt-end"]}

Post(k, j, b) ==
    [kind |-> "POST /api/interactions", apiKey |-> k, json |-> j, body |-> b]

\* x-api-key absent or empty, the configured key, and the key in another case
PostRequests ==
    {Post("secret", TRUE, b) : b \in ValidBodies \cup InvalidBodies}
    \cup {Post("secret", FALSE, GoodBody)}
    \cup {Post(k, TRUE, GoodBody) : k \in {"", "Secret"}}

Init ==
    /\ interactions = <<>>
    /\ pc = "serving"
    /\ LoopIdle
    /\ DashIdle
    /\ sessions = <<>>
    /\ ApiIdle
    /\ StatIdle

\* the request is answered by apiKeyAuth and never reaches the handler
Rejected(req) ==
    /\ apiKeyAuth(req) # NoResponse
    /\ request' = req
    /\ response' = apiKeyAuth(req)
    /\ UNCHANGED <<dashVars, store, interactions, pc, loopVars, sessions, statVars>>

\* the request passes apiKeyAuth and the handler answers it
Handled(req) ==
    /\ apiKeyAuth(req) = NoResponse
    /\ request' = req
    /\ response' = postInteractions(req, store).response
    /\ store' = postInteractions(req, store).rows
    /\ UNCHANGED <<dashVars, interactions, pc, loopVars, sessions, statVars>>

Unauthorized == \E req \in PostRequests : req.apiKey = "" /\ Rejected(req)

Forbidden == \E req \in PostRequests : req.apiKey # "" /\ Rejected(req)

PostBadRequest ==
    \E req \in PostRequests :
        /\ Handled(req)
        /\ response'.status = 400

PostRecorded ==
    \E req \in PostRequests :
        /\ Len(store) < MaxRows
        /\ Handled(req)
        /\ response'.status = 201
        /\ store' # store

PostDuplicate ==
    \E req \in PostRequests :
        /\ Handled(req)
        /\ response'.status = 201
        /\ store' = store

Next ==
    \/ Unauthorized
    \/ Forbidden
    \/ PostBadRequest
    \/ PostRecorded
    \/ PostDuplicate

Spec == Init /\ [][Next]_vars

(***************************************************************************)
(* C9: the store never holds two rows with the same (session_id,           *)
(* timestamp, event_type); a valid POST of a triple that is stored leaves  *)
(* every row as it was (the project, machine and agent written first are   *)
(* kept) and is answered 201 recorded, so the sessions computed from the   *)
(* rows are unchanged; a valid POST of a new triple adds exactly its row.  *)
(***************************************************************************)
ValidPost(req) ==
    /\ req.kind = "POST /api/interactions"
    /\ req.apiKey = "secret"
    /\ req.json
    /\ req.body \in ValidBodies

StoredKeys(rows) == {UniqueKey(rows[i]) : i \in 1..Len(rows)}

MaxStreakEvents == 3

\* the day the calls start on, far enough from the epoch for a year of days
StreakToday == STREAK_LOOKBACK + 35

At(day, hour) == [t |-> day * SecondsPerDay + hour * 3600, form |-> "Z"]

StreakInputs ==
    {Interaction("s1", "prompt-start", At(StreakToday - back, hour),
                 "p1", "m1", "a1") : back \in 0..3, hour \in {1, 14}}

\* one event at noon on each of the n days that end with StreakToday
DailyRun(n) ==
    Array([i \in 1..n |->
        Interaction("s1", "prompt-start", At(StreakToday - n + i, 12),
                    "p1", "m1", "a1")])

LongRuns == {DailyRun(n) : n \in (STREAK_LOOKBACK - 1)..(STREAK_LOOKBACK + 1)}

\* UTC-8, UTC and UTC+10, in minutes
Offsets == {-480, 0, 600}

StreakClocks == {At(StreakToday, 1).t, At(StreakToday, 15).t, At(StreakToday + 1, 1).t}

InitStreak ==
    /\ interactions \in SeqsUpTo(StreakInputs, MaxStreakEvents) \cup LongRuns
    /\ pc = "input"
    /\ LoopIdle
    /\ DashIdle
    /\ sessions = <<>>
    /\ ApiIdle
    /\ now \in StreakClocks
    /\ timezoneOffset \in Offsets
    /\ weekStart = 0
    /\ streak = -1
    /\ stats = NoStats
    /\ projectStats = <<>>
    /\ earlier = NoCall

CallStreak ==
    /\ pc = "input"
    /\ streak' = calculateStreak(interactions, timezoneOffset, now)
    /\ pc' = "streak"
    /\ UNCHANGED <<dashVars, interactions, loopVars, sessions, apiVars, now,
                   timezoneOffset, weekStart, stats, projectStats, earlier>>

\* the clock moves on and the same call is made again
CallStreakLater ==
    /\ pc = "streak"
    /\ \E later \in StreakClocks : later > now /\ now' = later
    /\ streak' = calculateStreak(interactions, timezoneOffset, now')
    /\ UNCHANGED <<dashVars, interactions, pc, loopVars, sessions, apiVars,
                   timezoneOffset, weekStart, stats, projectStats, earlier>>

NextStreak == CallStreak \/ CallStreakLater

SpecStreak == InitStreak /\ [][NextStreak]_vars

(***************************************************************************)
(* The streak, stated on the dates                                         *)
(***************************************************************************)
\* the local calendar days that have an event
ActiveDays ==
    {(interactions[i].timestamp.t + timezoneOffset * 60) \div 86400 :
        i \in 1..Len(interactions)}

Today == (now + timezoneOffset * 60) \div 86400

\* the day the count starts from: today when it has an event, else yesterday
CountFrom(days) == IF Today \in days THEN Today ELSE Today - 1

\* the number of consecutive days of the set, counted backwards from a day
RunBack(days, from) ==
    CHOOSE n \in 0..Cardinality(days) :
        /\ \A k \in 0..(n - 1) : (from - k) \in days
        /\ (from - n) \notin days

(***************************************************************************)
(* C8 (as claimed): calculateStreak returns the number of consecutive      *)
(* local calendar days with an event, counted backwards from today when    *)
(* today has an event and from yesterday otherwise.                        *)
(***************************************************************************)
C8_StreakIsRun ==
    pc = "streak" => streak = RunBack(ActiveDays, CountFrom(ActiveDays))

(***************************************************************************)
(* C8 (amended): the same count, taken over the 365 days that end today    *)
(* only (today and the 364 days before it): days further back are never    *)
(* looked at, so the streak is at most 365.  A missing today is neither    *)
(* counted nor breaks the streak; the first missing day before stops it.   *)
(***************************************************************************)
Examined == {d \in ActiveDays : Today - d < 365 /\ d <= Today}

C8_StreakIsRunWithinYear ==
    pc = "streak" =>
        /\ streak = RunBack(Examined, CountFrom(Examined))
        /\ interactions = <<>> => streak = 0
        /\ (Today \notin ActiveDays /\ (Today - 1) \notin ActiveDays) => streak = 0

\* events on the two days before today and none today: the streak is 2
C8_Witness ==
    /\ pc = "streak"
    /\ ActiveDays = {Today - 1, Today - 2}
    /\ streak = 2

(***************************************************************************)
(* SpecStats: calculateWeeklyStats called on an event list, at some moment *)
(* and again, with the same arguments, at the same or a later moment       *)
(***************************************************************************)
MaxStatEvents == 3

\* day 0 of the model is a Monday; events fall on Monday (02:00Z and
\* 02:20Z, which is Sunday at offset -480) and Tuesday (15:00Z, which is
\* Wednesday at offset 600)
StatInstants == {At(0, 2), [t |-> At(0, 2).t + 20 * 60, form |-> "Z"], At(1, 15)}

StatInputs ==
    {Interaction("s1", "prompt-start", ts, "p1", "m1", "a1") : ts \in StatInstants}
    \cup {Interaction("s1", "response-end", ts, "p1", "m1", "a1") :
              ts \in StatInstants \ {At(0, 2)}}
    \cup {Interaction("s2", "prompt-start", At(0, 2), "p2", "m2", "a1"),
          Interaction("s2", "response-end", At(1, 15), "p2", "m2", "a1"),
          Interaction("s3", "prompt-start", At(1, 15), "p1", "m1", "a2")}

\* the minutes between prompt-start and response-end in a paired week
PairedMinutes == {2, 7, 8, 10}

\* session k of a paired week: one prompt-start on Monday at k o'clock and
\* its response-end the given number of minutes later
PairedSession(k, minutes) ==
    LET meta == <<[sid |-> "s1", project |-> "p1", machine |-> "m1", agent |-> "a1"],
                  [sid |-> "s2", project |-> "p2", machine |-> "m2", agent |-> "a1"],
                  [sid |-> "s3", project |-> "p1", machine |-> "m1", agent |-> "a2"]>>[k]
        begin == At(0, k)
        finish == [t |-> begin.t + minutes * SecondsPerMinute, form |-> "Z"]
    IN  <<Interaction(meta.sid, "prompt-start", begin,
                      meta.project, meta.machine, meta.agent),
          Interaction(meta.sid, "response-end", finish,
                      meta.project, meta.machine, meta.agent)>>

\* weeks of one, two or three sessions, each one prompt and its response
PairedWeeks ==
    {PairedSession(1, a) : a \in PairedMinutes}
    \cup {PairedSession(1, a) \o PairedSession(2, b) : a, b \in PairedMinutes}
    \cup {PairedSession(1, a) \o PairedSession(2, b) \o PairedSession(3, c) :
              a, b, c \in PairedMinutes}

\* Tuesday 23:00Z, Wednesday 01:00Z, Thursday 16:00Z
StatClocks == {At(1, 23).t, At(2, 1).t, At(3, 16).t}

InitStats ==
    /\ interactions \in SeqsUpTo(StatInputs, MaxStatEvents) \cup PairedWeeks
    /\ pc = "input"
    /\ LoopIdle
    /\ DashIdle
    /\ sessions = <<>>
    /\ ApiIdle
    /\ now \in StatClocks
    /\ timezoneOffset \in Offsets
    /\ weekStart = At(0, 0).t
    /\ streak = -1
    /\ stats = NoStats
    /\ projectStats = <<>>
    /\ earlier = NoCall

CallWeeklyStats ==
    /\ pc = "input"
    /\ sessions' = calculateSessions(interactions)
    /\ stats' = calculateWeeklyStats(interactions, weekStart, timezoneOffset, now)
    /\ pc' = "stats"
    /\ UNCHANGED <<dashVars, interactions, loopVars, apiVars, now,
                   timezoneOffset, weekStart, streak, projectStats, earlier>>

\* the clock may move on; the same call is made again
CallWeeklyStatsAgain ==
    /\ pc \in {"stats", "again"}
    /\ \E later \in StatClocks : later >= now /\ now' = later
    /\ earlier' = [now |-> now, stats |-> stats]
    /\ stats' = calculateWeeklyStats(interactions, weekStart, timezoneOffset, now')
    /\ pc' = "again"
    /\ UNCHANGED <<dashVars, interactions, loopVars, sessions, apiVars,
                   timezoneOffset, weekStart, streak, projectStats>>

CallProjectStats ==
    /\ pc = "input"
    /\ sessions' = calculateSessions(interactions)
    /\ projectStats' = calculateProjectStats(interactions)
    /\ pc' = "projectStats"
    /\ UNCHANGED <<dashVars, interactions, loopVars, apiVars, now, timezoneOffset,
                   weekStart, streak, stats, earlier>>

NextStats == CallWeeklyStats \/ CallWeeklyStatsAgain \/ CallProjectStats

SpecStats == InitStats /\ [][NextStats]_vars

(***************************************************************************)
(* C10 (as claimed): two calls of calculateWeeklyStats with the same       *)
(* events, week start and offset return the same result, whatever the      *)
(* moments of the two calls.                                               *)
(***************************************************************************)
C10_SameResultAnyTime ==
    pc = "again" => stats = earlier.stats

(***************************************************************************)
(* C10 (amended): the two results are the same in every field other than   *)
(* streak_days whatever the moments of the calls, and the same in every    *)
(* field when both calls are made on the same local calendar day (the date *)
(* of the clock plus the offset).                                          *)
(***************************************************************************)
LocalDayOf(clock) ==
    (clock + timezoneOffset * SecondsPerMinute) \div SecondsPerDay

C10_SameResultSameDay ==
    pc = "again" =>
        /\ [stats EXCEPT !.streak_days = 0]
               = [earlier.stats EXCEPT !.streak_days = 0]
        /\ LocalDayOf(now) = LocalDayOf(earlier.now) => stats = earlier.stats

\* two calls at different moments of one local day, with a streak to count
C10_Witness ==
    /\ pc = "again"
    /\ now # earlier.now
    /\ LocalDayOf(now) = LocalDayOf(earlier.now)
    /\ stats.streak_days >= 1
    /\ stats.total_sessions >= 2
    /\ stats = earlier.stats

(***************************************************************************)
(* Vocabulary of the claims about the aggregates of calculateWeeklyStats   *)
(***************************************************************************)
Returned == pc \in {"stats", "again"}

\* the Session[] the aggregators are called with
WeekSessions == sessions

\* the date part of (session.start + timezoneOffset minutes)
StartDay(s) ==
    (getTime(s.start) + timezoneOffset * SecondsPerMinute) \div SecondsPerDay

\* the positions of the sessions whose local start date is day
StartingOn(day) ==
    {i \in 1..Len(WeekSessions) : StartDay(WeekSessions[i]) = day}

RECURSIVE SumOver(_, _)
\* the sum of f[i] over the finite set of positions
SumOver(f, positions) ==
    IF positions = {} THEN 0
    ELSE LET i == CHOOSE x \in positions : TRUE
         IN  f[i] + SumOver(f, positions \ {i})

MinutesOf(list) == [i \in 1..Len(list) |-> list[i].active_minutes]

\* x / 60 rounded to the nearest integer, halves up: the only h with
\* 60h - 30 <= x < 60h + 30
IsRoundedHours(h, x) == 60 * h - 30 <= x /\ x < 60 * h + 30

(***************************************************************************)
(* C11: calculateDailyBreakdown returns exactly 7 entries, dated the UTC   *)
(* date of weekStart plus 0..6 in order; entry D counts exactly the        *)
(* sessions whose start plus the offset falls on date D, so a session is   *)
(* counted in at most one entry; an entry without a matching session has   *)
(* hours 0, sessions 0 and projects [].                                    *)
(***************************************************************************)
C11_DailyBreakdown ==
    Returned =>
        LET days == stats.daily_breakdown
            weekStartDay == weekStart \div SecondsPerDay
        IN  /\ Len(days) = 7
            /\ \A k \in 1..7 :
                 /\ days[k].date = weekStartDay + (k - 1)
                 /\ days[k].sessions = Cardinality(StartingOn(days[k].date))
                 /\ IsRoundedHours(days[k].hours,
                        SumOver(MinutesOf(WeekSessions), StartingOn(days[k].date)))
                 /\ StartingOn(days[k].date) = {} =>
                        /\ days[k].hours = 0
                        /\ days[k].sessions = 0
                        /\ days[k].projects = <<>>
            /\ \A i \in 1..Len(WeekSessions) :
                 Cardinality({k \in 1..7 :
                     days[k].date = StartDay(WeekSessions[i])}) <= 1
            /\ SumOver([k \in 1..7 |-> days[k].sessions], 1..7) <= Len(WeekSessions)

\* at offset -480 one session starts on the Sunday before the week and is
\* in no entry, another is counted on Tuesday, and Monday is empty
C11_Witness ==
    /\ pc = "stats"
    /\ timezoneOffset = -480
    /\ Len(WeekSessions) = 2
    /\ stats.daily_breakdown[1].sessions = 0
    /\ stats.daily_breakdown[2].sessions = 1
    /\ stats.daily_breakdown[2].hours > 0
    /\ \E i \in 1..2 : StartDay(WeekSessions[i]) < weekStart \div SecondsPerDay

(***************************************************************************)
(* C12: calculateAgentProjectBreakdown lists for each agent exactly the    *)
(* distinct projects of that agent's own sessions, in alphabetical order:  *)
(* no project in which only other agents have sessions, and every project  *)
(* the agent has a session in.                                             *)
(***************************************************************************)
ProjectsOfAgent(agent) ==
    {WeekSessions[i].project :
        i \in {j \in 1..Len(WeekSessions) : WeekSessions[j].agent = agent}}

Alphabetical(names) ==
    \A i \in 1..Len(names), j \in 1..Len(names) :
        i < j => NameRank(names[i]) < NameRank(names[j])

C12_AgentProjects ==
    Returned =>
        LET list == stats.agent_projects
        IN  /\ {list[k].agent : k \in 1..Len(list)}
                   = {WeekSessions[i].agent : i \in 1..Len(WeekSessions)}
            /\ \A k \in 1..Len(list), l \in 1..Len(list) :
                   list[k].agent = list[l].agent => k = l
            /\ \A k \in 1..Len(list) :
                 /\ {list[k].projects[n] : n \in 1..Len(list[k].projects)}
                        = ProjectsOfAgent(list[k].agent)
                 /\ Alphabetical(list[k].projects)

\* agent a1 works in p2 and then p1, agent a2 in p1 only: a1 lists p1, p2
\* and a2 lists p1, not p2
C12_Witness ==
    /\ pc = "stats"
    /\ Len(WeekSessions) = 3
    /\ WeekSessions[1].project = "p2" /\ WeekSessions[1].agent = "a1"
    /\ WeekSessions[2].project = "p1" /\ WeekSessions[2].agent = "a1"
    /\ WeekSessions[3].agent = "a2"
    /\ \E k \in 1..2 : /\ stats.agent_projects[k].agent = "a2"
                       /\ stats.agent_projects[k].projects = <<"p1">>
    /\ \E k \in 1..2 : /\ stats.agent_projects[k].agent = "a1"
                       /\ stats.agent_projects[k].projects = <<"p1", "p2">>

(***************************************************************************)
(* C13: calculateAgentBreakdown and calculateMachineBreakdown give         *)
(* percentage 0 to every entry whenever totalHours is 0, also when the     *)
(* session list is not empty; no percentage is NaN or Infinity; with an    *)
(* empty session list and total 0 they return an empty list.               *)
(***************************************************************************)
Shares == stats.agents \o stats.machines

C13_ZeroTotal ==
    Returned =>
        /\ \A k \in 1..Len(Shares) : Shares[k].percentage \in Nat
        /\ stats.total_hours = 0 =>
               \A k \in 1..Len(Shares) : Shares[k].percentage = 0
        /\ WeekSessions = <<>> =>
               stats.total_hours = 0 /\ stats.agents = <<>> /\ stats.machines = <<>>

\* one session of 2 active minutes: the total rounds to 0.0 hours, the
\* agent and the machine are listed with percentage 0
C13_Witness ==
    /\ pc = "stats"
    /\ Len(WeekSessions) = 1
    /\ WeekSessions[1].active_minutes = 20
    /\ stats.total_hours = 0
    /\ Len(stats.agents) = 1 /\ stats.agents[1].percentage = 0
    /\ Len(stats.machines) = 1 /\ stats.machines[1].percentage = 0

(***************************************************************************)
(* C14: in every result of calculateWeeklyStats the percentage of each     *)
(* entry of agents and of machines is an integer between 0 and 100.        *)
(***************************************************************************)
C14_PercentageInRange ==
    Returned => \A k \in 1..Len(Shares) : Shares[k].percentage \in 0..100

(***************************************************************************)
(* C15: total_hours of calculateWeeklyStats is the sum of all sessions'    *)
(* active_minutes divided by 60 and rounded to one decimal once, after     *)
(* summing; sessions of 7, 8 and 10 active minutes give 0.4.               *)
(***************************************************************************)
SevenEightTen ==
    PairedSession(1, 7) \o PairedSession(2, 8) \o PairedSession(3, 10)

C15_TotalHoursRoundedOnce ==
    Returned =>
        /\ IsRoundedHours(stats.total_hours,
               SumOver(MinutesOf(WeekSessions), 1..Len(WeekSessions)))
        /\ interactions = SevenEightTen => stats.total_hours = 4

\* three sessions of 8 active minutes: 24 minutes are 0.4 hours, while the
\* three rounded hours (0.1 each) add up to 0.3
C15_Witness ==
    /\ pc = "stats"
    /\ Len(WeekSessions) = 3
    /\ \A i \in 1..3 : WeekSessions[i].active_minutes = 80
    /\ stats.total_hours = 4

(***************************************************************************)
(* C16: calculateProjectBreakdown returns one entry per distinct project,  *)
(* with sessions = the number of that project's sessions and hours = its   *)
(* summed active_minutes / 60 rounded to one decimal, ordered by hours     *)
(* descending; entries of exactly equal hours keep the order in which      *)
(* their project first appears in the session list.                        *)
(***************************************************************************)
InProject(project) ==
    {i \in 1..Len(WeekSessions) : WeekSessions[i].project = project}

FirstSeen(project) ==
    CHOOSE i \in InProject(project) : \A j \in InProject(project) : i <= j

C16_ProjectBreakdown ==
    Returned =>
        LET list == stats.projects
        IN  /\ {list[k].name : k \in 1..Len(list)}
                   = {WeekSessions[i].project : i \in 1..Len(WeekSessions)}
            /\ \A k \in 1..Len(list) :
                 /\ \A l \in 1..Len(list) : list[k].name = list[l].name => k = l
                 /\ list[k].sessions = Cardinality(InProject(list[k].name))
                 /\ IsRoundedHours(list[k].hours,
                        SumOver(MinutesOf(WeekSessions), InProject(list[k].name)))
            /\ \A k \in 1..Len(list), l \in 1..Len(list) :
                 k < l =>
                     \/ list[k].hours > list[l].hours
                     \/ /\ list[k].hours = list[l].hours
                        /\ FirstSeen(list[k].name) < FirstSeen(list[l].name)

\* p2 comes first in the session list and ties with p1 on hours, so p2
\* stays before p1
C16_Witness ==
    /\ pc = "stats"
    /\ Len(WeekSessions) = 2
    /\ WeekSessions[1].project = "p2"
    /\ Len(stats.projects) = 2
    /\ stats.projects[1].name = "p2"
    /\ stats.projects[2].name = "p1"
    /\ stats.projects[1].hours = stats.projects[2].hours
    /\ stats.projects[1].hours > 0

\* the project seen later has more hours and is listed first
C16_WitnessSorted ==
    /\ pc = "stats"
    /\ Len(stats.projects) = 2
    /\ FirstSeen(stats.projects[1].name) > FirstSeen(stats.projects[2].name)
    /\ stats.projects[1].hours > stats.projects[2].hours

(***************************************************************************)
(* C17: calculateProjectStats returns per project an agents map whose keys *)
(* are exactly the agents with a session in that project and whose values  *)
(* are the agent's hours within that project only, together with           *)
(* total_sessions and total_hours of the project; the list is ordered by   *)
(* total_hours descending and is empty for empty input.                    *)
(***************************************************************************)
InProjectByAgent(project, agent) ==
    {i \in InProject(project) : WeekSessions[i].agent = agent}

C17_ProjectStats ==
    pc = "projectStats" =>
        LET list == projectStats
        IN  /\ interactions = <<>> => list = <<>>
            /\ {list[k].name : k \in 1..Len(list)}
                   = {WeekSessions[i].project : i \in 1..Len(WeekSessions)}
            /\ \A k \in 1..Len(list) :
                 /\ \A l \in 1..Len(list) : list[k].name = list[l].name => k = l
                 /\ list[k].total_sessions = Cardinality(InProject(list[k].name))
                 /\ IsRoundedHours(list[k].total_hours,
                        SumOver(MinutesOf(WeekSessions), InProject(list[k].name)))
                 /\ DOMAIN list[k].agents
                        = {WeekSessions[i].agent : i \in InProject(list[k].name)}
                 /\ \A agent \in DOMAIN list[k].agents :
                        IsRoundedHours(list[k].agents[agent],
                            SumOver(MinutesOf(WeekSessions),
                                    InProjectByAgent(list[k].name, agent)))
            /\ \A k \in 1..Len(list), l \in 1..Len(list) :
                 k < l => list[k].total_hours >= list[l].total_hours

\* agent a1 has 10 minutes in p2 and 7 in p1, where a2 has 8: p1 is listed
\* first with a1 at 0.1 and a2 at 0.1, p2 second with a1 at 0.2 only
C17_Witness ==
    /\ pc = "projectStats"
    /\ interactions
           = PairedSession(1, 7) \o PairedSession(2, 10) \o PairedSession(3, 8)
    /\ Len(projectStats) = 2
    /\ projectStats[1].name = "p1"
    /\ projectStats[1].total_hours = 3
    /\ projectStats[1].agents = [agent \in {"a1", "a2"} |-> 1]
    /\ projectStats[2].agents = [agent \in {"a1"} |-> 2]

(***************************************************************************)
(* C18: each Session's project, machine, agent and start are those of the  *)
(* event with the earliest timestamp in its session_id group, whatever the *)
(* type of that event and whatever the order in which the events arrived.  *)
(***************************************************************************)
\* the positions in the input of the events of a session
Arrived(sid) ==
    {i \in 1..Len(interactions) : interactions[i].session_id = sid}

\* the positions of the events of a session that no event of it precedes
\* in time
Earliest(sid) ==
    {i \in Arrived(sid) :
        \A j \in Arrived(sid) :
            interactions[i].timestamp.t <= interactions[j].timestamp.t}

C18_FirstEventMetadata ==
    pc = "sessions" =>
        \A k \in 1..Len(sessions) :
            \E i \in Earliest(sessions[k].session_id) :
                /\ sessions[k].project = interactions[i].project
                /\ sessions[k].machine = interactions[i].machine
                /\ sessions[k].agent = interactions[i].agent
                /\ sessions[k].start = interactions[i].timestamp

\* the earliest event is a session-end that arrived last, after a
\* prompt-start with other metadata: the session takes the session-end's
C18_Witness ==
    /\ pc = "sessions"
    /\ interactions = <<MetaB("s1", "response-end", 300),
                        MetaA("s1", "prompt-start", 300),
                        MetaA("s1", "session-end", 0)>>
    /\ Len(sessions) = 1
    /\ sessions[1].project = "p1"
    /\ sessions[1].start = [t |-> 0, form |-> "Z"]

WithoutSessionEnds(sid) ==
    LET Kept(e) == e.session_id = sid /\ ~IsSessionEnd(e)
    IN  SelectSeq(interactions, Kept)

C20_SessionEndInert ==
    pc = "sessions" =>
        \A k \in 1..Len(sessions) :
            LET sid  == sessions[k].session_id
                rest == WithoutSessionEnds(sid)
            IN  IF rest = <<>>
                THEN /\ sessions[k].active_minutes = 0
                     /\ sessions[k].interaction_count = 0
                     /\ sessions[k].explicit_end = TRUE
                ELSE LET bare == deriveSession(sid, SortEvents(rest))
                     IN  /\ sessions[k].active_minutes = bare.active_minutes
                         /\ sessions[k].interaction_count = bare.interaction_count

\* a prompt-start, a session-end after it and no response-end: the prompt
\* stays unpaired and counts the default 5 minutes
C20_Witness ==
    /\ pc = "sessions"
    /\ interactions = <<MetaA("s1", "prompt-start", 0),
                        MetaA("s1", "session-end", 603)>>
    /\ sessions[1].active_minutes = 50
    /\ sessions[1].interaction_count = 1
    /\ sessions[1].explicit_end = TRUE

(***************************************************************************)
(* C21: with an empty event list no aggregator raises: calculateWeeklyStats *)
(* returns total_hours 0, total_sessions 0, streak_days 0, empty projects, *)
(* agents, machines and agent_projects and 7 daily entries each with hours *)
(* 0, sessions 0 and projects []; calculateSessions and                    *)
(* calculateProjectStats return [].                                        *)
(***************************************************************************)
C21_EmptyInput ==
    interactions = <<>> =>
        /\ Returned =>
               /\ sessions = <<>>
               /\ stats.total_hours = 0
               /\ stats.total_sessions = 0
               /\ stats.streak_days = 0
               /\ stats.projects = <<>>
               /\ stats.agents = <<>>
               /\ stats.machines = <<>>
               /\ stats.agent_projects = <<>>
               /\ Len(stats.daily_breakdown) = 7
               /\ \A k \in 1..7 :
                      /\ stats.daily_breakdown[k].hours = 0
                      /\ stats.daily_breakdown[k].sessions = 0
                      /\ stats.daily_breakdown[k].projects = <<>>
        /\ pc = "projectStats" => sessions = <<>> /\ projectStats = <<>>

\* calculateWeeklyStats has returned for the empty list
C21_Witness ==
    /\ interactions = <<>>
    /\ pc = "stats"
    /\ stats.total_sessions = 0
    /\ Len(stats.daily_breakdown) = 7

(***************************************************************************)
(* C23 (as claimed): a derived session has end = null exactly when its     *)
(* group has no session-end and the FIFO pairing leaves at least one of    *)
(* its prompt-starts unpaired.                                             *)
(***************************************************************************)
C23_EndNullIffUnpaired ==
    Derived =>
        \A s \in SessionsOut :
            LET g == GroupOf(s)
            IN  (s.end = Null) <=>
                    /\ ~GroupHasSessionEnd(g)
                    /\ NumPrompts(g, Len(g)) > NumPaired(g, Len(g))

\* the instants of a group are all different
DistinctInstants(g) ==
    \A i, j \in 1..Len(g) : g[i].timestamp.t = g[j].timestamp.t => i = j

(***************************************************************************)
(* C23 (amended): a derived session has end = null exactly when its group  *)
(* has a prompt-start, no session-end and no response-end timestamped      *)
(* later than its last prompt-start.  A prompt-start left unpaired is not  *)
(* enough for that; in calculateSessions, when the instants of the group   *)
(* are all different, end = null does imply that a prompt-start is left    *)
(* unpaired.                                                               *)
(***************************************************************************)
C23_EndNullIffNoLaterResponse ==
    Derived =>
        \A s \in SessionsOut :
            LET g == GroupOf(s)
            IN  /\ (s.end = Null) <=>
                       /\ ~s.explicit_end
                       /\ HasPrompt(g)
                       /\ ~ResponseAfterLastPrompt(g)
                /\ (pc = "sessions" /\ s.end = Null /\ DistinctInstants(g)) =>
                       NumPrompts(g, Len(g)) > NumPaired(g, Len(g))

\* two prompt-starts and one later response-end: the second prompt-start
\* is left unpaired and counts 5 minutes, yet the session has an end
C23_Witness ==
    /\ pc = "sessions"
    /\ interactions = <<MetaA("s2", "prompt-start", 0),
                        MetaA("s2", "prompt-start", 300),
                        MetaA("s2", "response-end", 603)>>
    /\ Len(sessions) = 1
    /\ sessions[1].end = [t |-> 603, form |-> "ms"]
    /\ sessions[1].explicit_end = FALSE
    /\ NumPrompts(interactions, 3) = 2
    /\ NumPaired(interactions, 3) = 1

RECURSIVE FifoDifferences(_, _)
FifoDifferences(events, i) ==
    IF i = 0 THEN 0
    ELSE LET k == NumPaired(events, i - 1)
         IN  IF IsResponse(events[i]) /\ NumPrompts(events, i - 1) > k
             THEN FifoDifferences(events, i - 1)
                  + (events[i].timestamp.t
                         - NthPrompt(events, k + 1).timestamp.t)
             ELSE FifoDifferences(events, i - 1)

C29_ClampNotExercised ==
    pc = "sessions" =>
        \A s \in SessionsOut :
            LET g == GroupOf(s)
                p == NumPrompts(g, Len(g))
                k == NumPaired(g, Len(g))
            IN  /\ \A i \in 1..Len(g) :
                       (IsResponse(g[i])
                            /\ NumPrompts(g, i - 1) > NumPaired(g, i - 1)) =>
                           NthPrompt(g, NumPaired(g, i - 1) + 1).timestamp.t
                               <= g[i].timestamp.t
                /\ s.active_minutes =
                       MathRound((FifoDifferences(g, Len(g))
                                      + 5 * 60 * (p - k)) * 10, 60)

\* the response-end arrives before the prompt-start it answers
C29_Witness ==
    /\ pc = "sessions"
    /\ interactions = <<MetaA("s1", "response-end", 300),
                        MetaA("s1", "prompt-start", 0)>>
    /\ sessions[1].active_minutes = 50
    /\ sessions[1].interaction_count = 1

(***************************************************************************)
(* C30: a session of calculateSessions whose sorted events alternate       *)
(* prompt-start, response-end, from a prompt-start to a response-end, all  *)
(* timestamped on whole minutes, has active_minutes <= span_minutes.       *)
(***************************************************************************)
Alternating(g) ==
    /\ Len(g) % 2 = 0
    /\ \A i \in 1..Len(g) :
           IF i % 2 = 1 THEN IsPrompt(g[i]) ELSE IsResponse(g[i])

WholeMinutes(g) ==
    \A i \in 1..Len(g) : g[i].timestamp.t % SecondsPerMinute = 0

C30_ActiveWithinSpan ==
    pc = "sessions" =>
        \A s \in SessionsOut :
            LET g == GroupOf(s)
            IN  (Alternating(g) /\ WholeMinutes(g)) =>
                    s.active_minutes <= 10 * s.span_minutes

\* two prompts answered after 5 and 10 minutes: 15 active minutes in a
\* span of 20
C30_Witness ==
    /\ pc = "sessions"
    /\ Len(sessions) = 1
    /\ Len(GroupOf(sessions[1])) = 4
    /\ Alternating(GroupOf(sessions[1]))
    /\ WholeMinutes(GroupOf(sessions[1]))
    /\ sessions[1].active_minutes = 150
    /\ sessions[1].span_minutes = 20

(***************************************************************************)
(* SpecQueries: the Worker over a database that holds rows: every route of *)
(* index.ts, the CORS preflight and the root route                         *)
(***************************************************************************)
MaxStoredRows == 3

\* parseInt(c.req.query("days") || "30") and || "7"
DefaultStatsDays == 30
DefaultSessionDays == 7

\* the interactions POSTed so far, in the order they arrived (day 7 is a
\* Monday): s1 changes project between its events; s2 starts on Sunday
\* 15:00Z and ends at Monday 00:00:00Z; s3 starts at Monday 00:00:00.000Z;
\* s4 runs from Sunday 20:00Z to the next Monday 00:00:00.000Z; s5 starts at
\* that Monday 00:00:00Z
QueryBodies ==
    <<Body("p2", At(8, 15), "m1", "a1", "s1", "response-end"),
      Body("p1", At(7, 2), "m1", "a1", "s1", "prompt-start"),
      Body("p2", At(7, 0), "m2", "a2", "s2", "response-end"),
      Body("p2", At(6, 15), "m2", "a2", "s2", "prompt-start"),
      Body("p1", toISOString(At(7, 0).t), "m1", "a2", "s3", "prompt-start"),
      Body("p1", At(9, 10), "m1", "a2", "s3", "response-end"),
      Body("p1", At(13, 20), "m1", "a1", "s4", "prompt-start"),
      Body("p1", toISOString(At(14, 0).t), "m1", "a1", "s4", "response-end"),
      Body("p2", At(14, 0), "m2", "a1", "s5", "prompt-start")>>

\* the bodies at the positions of S, in arrival order
Picked(S) ==
    LET Chosen(i) == i \in S
        positions == SelectSeq(Array([i \in 1..Len(QueryBodies) |-> i]), Chosen)
    IN  Array([k \in 1..Len(positions) |-> QueryBodies[positions[k]]])

\* the rows after the bodies were POSTed one after the other
RECURSIVE Inserted(_)
Inserted(bodies) ==
    IF bodies = <<>> THEN <<>>
    ELSE InsertOnConflictDoNothing(
             Inserted(SubSeq(bodies, 1, Len(bodies) - 1)), bodies[Len(bodies)])

\* Wednesday 23:00Z of the week of day 7, and 01:00Z of the Monday after it
QueryClocks == {At(9, 23).t, At(14, 1).t}

\* no week_start, a Monday and a Wednesday
WeekStarts == {NoWeekStart, 7, 9}

Keys == {"", "Secret", API_KEY}

Weekly(k, ws, tz) ==
    [kind |-> "GET /api/stats/weekly", apiKey |-> k,
     week_start |-> ws, tz_offset |-> tz]

ProjectStats(k) ==
    [kind |-> "GET /api/stats/projects", apiKey |-> k, days |-> DefaultStatsDays]

ProjectSessions(k, name) ==
    [kind |-> "GET /api/projects/:name/sessions", apiKey |-> k,
     name |-> name, days |-> DefaultSessionDays]

Options(k) == [kind |-> "OPTIONS /api/interactions", apiKey |-> k]

RootGet(k) == [kind |-> "GET /", apiKey |-> k]

WeeklyRequests ==
    {Weekly(API_KEY, ws, tz) : ws \in WeekStarts, tz \in Offsets}
    \cup {Weekly(k, NoWeekStart, 0) : k \in Keys}

ProjectStatsRequests == {ProjectStats(k) : k \in Keys}

ProjectSessionsRequests ==
    {ProjectSessions(API_KEY, name) : name \in {"p1", "p2", "p3"}}
    \cup {ProjectSessions(k, "p1") : k \in Keys}

\* a row that may be new or stored, and a body that is not JSON
QueryPosts ==
    {Post(k, TRUE, QueryBodies[1]) : k \in Keys}
    \cup {Post(API_KEY, FALSE, QueryBodies[1])}

\* the requests that are routed through apiKeyAuth
RoutedRequests ==
    WeeklyRequests \cup ProjectStatsRequests \cup ProjectSessionsRequests
    \cup QueryPosts

InitQueries ==
    /\ interactions = <<>>
    /\ pc = "serving"
    /\ LoopIdle
    /\ DashIdle
    /\ sessions = <<>>
    /\ \E S \in SUBSET (1..Len(QueryBodies)) :
           /\ Cardinality(S) <= MaxStoredRows
           /\ store = Inserted(Picked(S))
    /\ request = NoRequest
    /\ response = NoResponse
    /\ now \in QueryClocks
    /\ timezoneOffset = 0
    /\ weekStart = 0
    /\ streak = -1
    /\ stats = NoStats
    /\ projectStats = <<>>
    /\ earlier = NoCall

\* the request is answered and no row is written
Answered(req, res) ==
    /\ request' = req
    /\ response' = res
    /\ UNCHANGED <<dashVars, store, interactions, pc, loopVars, sessions, statVars>>

\* GET / is registered before the middleware of /api/*
Root == \E k \in Keys : Answered(RootGet(k), rootRoute)

\* the CORS middleware answers OPTIONS before apiKeyAuth is reached
Preflight == \E k \in Keys : Answered(Options(k), corsPreflight)

NoKey == \E req \in RoutedRequests : req.apiKey = "" /\ Rejected(req)

WrongKey == \E req \in RoutedRequests : req.apiKey # "" /\ Rejected(req)

PostInteraction == \E req \in QueryPosts : Handled(req)

GetWeeklyStats ==
    \E req \in WeeklyRequests :
        /\ apiKeyAuth(req) = NoResponse
        /\ Answered(req, getWeeklyStats(req, store, now))

GetProjectStats ==
    \E req \in ProjectStatsRequests :
        /\ apiKeyAuth(req) = NoResponse
        /\ Answered(req, getProjectStats(req, store, now))

GetProjectSessions ==
    \E req \in ProjectSessionsRequests :
        /\ apiKeyAuth(req) = NoResponse
        /\ Answered(req, getProjectSessions(req, store, now))

NextQueries ==
    \/ Root
    \/ Preflight
    \/ NoKey
    \/ WrongKey
    \/ PostInteraction
    \/ GetWeeklyStats
    \/ GetProjectStats
    \/ GetProjectSessions

SpecQueries == InitQueries /\ [][NextQueries]_vars

(***************************************************************************)
(* C22: a request to a route of /api/* is answered by its handler only if  *)
(* its x-api-key is exactly API_KEY: with no key or an empty one it is     *)
(* answered 401 Unauthorized, with any other key, also one that differs    *)
(* only by case, 403 Forbidden, and no request without the exact key ever  *)
(* changes a row; GET / is answered 200 with or without a key.             *)
(***************************************************************************)
Routes ==
    {"POST /api/interactions", "GET /api/stats/weekly",
     "GET /api/stats/projects", "GET /api/projects/:name/sessions"}

C22_KeyRequired ==
    /\ [](request.kind \in Routes =>
              /\ request.apiKey = "" =>
                     (response.status = 401 /\ response.body = "Unauthorized")
              /\ request.apiKey \notin {"", API_KEY} =>
                     (response.status = 403 /\ response.body = "Forbidden")
              /\ request.apiKey = API_KEY =>
                     response.status \in {200, 201, 400, 404})
    /\ [](request.kind = "GET /" =>
              (response.status = 200 /\ response.body = "Horizon API"))
    /\ [][store' # store => request'.apiKey = API_KEY]_vars

\* the statistics route is asked with the key in another case
C22_Witness ==
    /\ request = Weekly("Secret", NoWeekStart, 0)
    /\ response.status = 403
    /\ Len(store) > 0

(***************************************************************************)
(* The window of a weekly request, stated on the instants of the rows      *)
(***************************************************************************)
WeeklyAnswered ==
    request.kind = "GET /api/stats/weekly" /\ response.status = 200

\* the first instant of the requested week in local time
LocalWeekStart ==
    IF request.week_start # NoWeekStart THEN request.week_start * 86400
    ELSE LET localDay == (now + request.tz_offset * 60) \div 86400
         IN  (localDay - (localDay % 7)) * 86400

\* the local instant of a row
LocalInstant(row) == row.timestamp.t + request.tz_offset * 60

\* the positions of the rows whose local instant falls in the 7 days
InWindow ==
    {i \in 1..Len(store) :
        /\ LocalWeekStart <= LocalInstant(store[i])
        /\ LocalInstant(store[i]) < LocalWeekStart + 7 * 86400}

WindowSessions == {store[i].session_id : i \in InWindow}

\* the local date of the earliest row of a session in the window
WindowStartDay(sid) ==
    LET own == {i \in InWindow : store[i].session_id = sid}
        first == CHOOSE i \in own :
                     \A j \in own : store[i].timestamp.t <= store[j].timestamp.t
    IN  LocalInstant(store[first]) \div 86400

Shown(s) ==
    [session_id |-> s.session_id, start |-> s.start, end |-> s.end,
     active_minutes |-> s.active_minutes,
     interaction_count |-> s.interaction_count]

C26_ProjectConsistent ==
    (request.kind = "GET /api/projects/:name/sessions" /\ response.status = 200) =>
        LET all == calculateSessions(
                       SelectSince(store, toISOString(StartDate(request, now))))
            ofProject == WithKey(all, "project", request.name)
            returned == response.body.sessions
        IN  {Shown(returned[k]) : k \in 1..Len(returned)}
                = {Shown(ofProject[k]) : k \in 1..Len(ofProject)}

(***************************************************************************)
(* C27: the streak_days of GET /stats/weekly is at most 7 and at most the  *)
(* number of distinct local dates that have a row in the requested window. *)
(***************************************************************************)
WindowDates == {LocalInstant(store[i]) \div 86400 : i \in InWindow}

MaxFetches == 3

Projects == {"p1", "p2", "p3"}

\* data.sessions of GET /api/projects/:name/sessions: p1 has two sessions,
\* p2 one, p3 none
ServerSessions(name) ==
    IF name = "p1" THEN <<[session_id |-> "s1", project |-> "p1"],
                          [session_id |-> "s4", project |-> "p1"]>>
    ELSE IF name = "p2" THEN <<[session_id |-> "s2", project |-> "p2"]>>
    ELSE <<>>

InitDashboard ==
    /\ interactions = <<>>
    /\ pc = "dashboard"
    /\ LoopIdle
    /\ DashIdle
    /\ sessions = <<>>
    /\ ApiIdle
    /\ StatIdle

others == <<interactions, pc, loopVars, sessions, apiVars, statVars>>

\* selectProject on the selected project: the selection is toggled off
ClickSelected ==
    \E name \in Projects :
        /\ selectedProject = name
        /\ selectedProject' = NoProject
        /\ projectSessions' = <<>>
        /\ sessionDetailPanel' = [sessionDetailPanel EXCEPT !.hidden = TRUE]
        /\ UNCHANGED <<fetches, issued, others>>

\* selectProject on another project, up to its await fetch(...)
ClickOther ==
    \E name \in Projects :
        /\ selectedProject # name
        /\ issued < MaxFetches
        /\ selectedProject' = name
        /\ issued' = issued + 1
        /\ fetches' = fetches \cup {[id |-> issued + 1, project |-> name]}
        /\ UNCHANGED <<projectSessions, sessionDetailPanel, others>>

\* the rest of selectProject, run when its fetch is settled with list
Resume(fetch, list) ==
    /\ fetches' = fetches \ {fetch}
    /\ projectSessions' = list
    /\ sessionDetailPanel' =
           renderSessionDetail(sessionDetailPanel, selectedProject, list)
    /\ UNCHANGED <<selectedProject, issued, others>>

\* response.ok: state.projectSessions = data.sessions || []
FetchOk == \E fetch \in fetches : Resume(fetch, ServerSessions(fetch.project))

\* the response is not ok, or fetch throws: state.projectSessions = []
FetchFails == \E fetch \in fetches : Resume(fetch, <<>>)

\* render(), called when the weekly statistics are loaded again
Render ==
    /\ sessionDetailPanel' =
           renderSessionDetail(sessionDetailPanel, selectedProject,
                               projectSessions)
    /\ UNCHANGED <<selectedProject, projectSessions, fetches, issued, others>>

NextDashboard ==
    \/ ClickSelected
    \/ ClickOther
    \/ FetchOk
    \/ FetchFails
    \/ Render

SpecDashboard == InitDashboard /\ [][NextDashboard]_vars

(***************************************************************************)
(* C28 (as claimed): once no fetch is in flight, state.projectSessions is  *)
(* empty when no project is selected and otherwise holds only sessions of  *)
(* the selected project, and the panel that is shown lists sessions of the *)
(* project in its title.                                                   *)
(***************************************************************************)
C28_SessionsOfSelection ==
    fetches = {} =>
        /\ selectedProject = NoProject => projectSessions = <<>>
        /\ \A k \in 1..Len(projectSessions) :
               projectSessions[k].project = selectedProject
        /\ ~sessionDetailPanel.hidden =>
               \A k \in 1..Len(sessionDetailPanel.list) :
                   sessionDetailPanel.list[k].project = sessionDetailPanel.title

====
